---- MODULE Spec2Model ----
(***************************************************************************)
(* Blocked LQ (gelqf) and RQ (gerqf) drivers of <T>LAPACK: index           *)
(* bookkeeping, workspace sizing and the sequence of kernel calls.          *)
(* One behaviour is one call of one driver on an m-by-n matrix A.           *)
(* Matrix and vector contents are symbolic: every element holds the list   *)
(* of kernel invocations that wrote it, so two results are equal exactly   *)
(* when the same kernels ran on the same views in the same order.          *)
(* The rank-k update herk, the generator ungl2 and the mdspan diag view    *)
(* have their own variables and their own specifications further down.     *)
(***************************************************************************)
EXTENDS Integers, Sequences, FiniteSets, TLC

\* ------------------------------------------------------------------ bounds
MaxM == 4
MaxN == 4
MaxNb == 3
MaxTau == 4
IdxBits == 8
\* longest call log kept: a run with nb >= 1 makes at most 3 * min(m, n) calls
MaxCalls == 3 * (IF MaxM < MaxN THEN MaxM ELSE MaxN) + 3
\* scratch the caller may hold: none, or MaxWork elements
MaxWork == 16
\* workspace queries made around one driver call
MaxQueries == 2
\* herk: largest order of C, largest k, largest leading dimension
HMaxN == 2
HMaxK == 1
HMaxLd == 2
\* ungl2: largest row count, column count and tauw length
UMaxK == 4
UMaxN == 4
UMaxTau == 4
\* diag: largest row and column count of A
DMaxM == 4
DMaxN == 4

\* GelqfOpts::nb / GerqfOpts::nb default
DefaultNb == 32

VARIABLES routine, m, n, optsNb, tauSize, sameType, callerWork,
          pc, ret, workinfo, work, work_, TT, j, j2, ib, A, tau, calls, queried

\* herk: arguments, position, the adapted uplo / trans, the matrix views,
\* the storage of C, and whether an element outside C was addressed
VARIABLES hArgs, hpc, hUplo, hTrans, hView, hC, hFault

\* ungl2: shapes, position, loop index, Q, the reflector indices visited
VARIABLES uk, un, um, upc, uj, uQ, uVisited

\* diag: the matrix, the diagonal index, position, the view, elements read
VARIABLES dm, dn, dLayout, diagIdx, dpc, dView, dRead

herkVars == <<hArgs, hpc, hUplo, hTrans, hView, hC, hFault>>
ungl2Vars == <<uk, un, um, upc, uj, uQ, uVisited>>
diagVars == <<dm, dn, dLayout, diagIdx, dpc, dView, dRead>>
driverVars == <<routine, m, n, optsNb, tauSize, sameType, callerWork,
                pc, ret, workinfo, work, work_, TT, j, j2, ib, A, tau, calls, queried>>

vars == <<driverVars, herkVars, ungl2Vars, diagVars>>

\* what a driver step never changes: its arguments and the other routines
inputs == <<routine, m, n, optsNb, tauSize, sameType, callerWork,
            herkVars, ungl2Vars, diagVars>>

\* ------------------------------------------------------- unsigned arithmetic
\* idx_t / size_t arithmetic, narrowed to IdxBits bits
IdxMod == 2^IdxBits
Add(a, b) == (a + b) % IdxMod
Sub(a, b) == (a - b + IdxMod) % IdxMod
Mul(a, b) == (a * b) % IdxMod
min(a, b) == IF a < b THEN a ELSE b
max(a, b) == IF a > b THEN a ELSE b

\* const idx_t k = min(m, n);  const idx_t nb = min(opts.nb, k);
k == min(m, n)
nb == min(optsNb, k)

\* ----------------------------------------------------------------- WorkInfo
WorkInfo(mm, nn) == [m |-> mm, n |-> nn]
WorkInfo1(s) == [m |-> s, n |-> 1]
size(w) == Mul(w.m, w.n)
transpose(w) == [m |-> w.n, n |-> w.m]

\* WorkInfo::minMax: the smallest shape that holds either operand
minMax(w, w1) ==
    IF size(w1) = 0 THEN w
    ELSE IF size(w) = 0 THEN w1
    ELSE IF w.m >= w1.m /\ w.n >= w1.n THEN w
    ELSE IF w.m <= w1.m /\ w.n <= w1.n THEN w1
    ELSE [m |-> max(size(w), size(w1)), n |-> 1]

\* WorkInfo::operator+= : room for both operands at the same time
WorkInfoAdd(w, w1) ==
    IF size(w1) = 0 THEN w
    ELSE IF size(w) = 0 THEN w1
    ELSE IF w.n = w1.n THEN [m |-> Add(w.m, w1.m), n |-> w.n]
    ELSE IF w.m = w1.m THEN [m |-> w.m, n |-> Add(w.n, w1.n)]
    ELSE [m |-> Add(size(w), size(w1)), n |-> 1]

\* scratch of the unblocked panel kernels on a pm-by-pn panel: one vector
\* with an entry per row the current reflector is applied to
gelq2_worksize(pm, pn) == IF pm > 1 THEN WorkInfo1(Sub(pm, 1)) ELSE WorkInfo1(0)
gerq2_worksize(pm, pn) == IF pm > 1 THEN WorkInfo1(Sub(pm, 1)) ELSE WorkInfo1(0)

\* scratch of larfb, Side::Right, kk reflectors, C of cm rows: W is cm-by-kk
larfb_worksize(kk, cm, cn) == WorkInfo(cm, kk)

\* the scratch larfb takes from the shared workspace: W, cm-by-kk, from its
\* leading corner
larfb_W(kk, cm) == <<0, cm, 0, kk>>

\* mutant: the result grows once kernels have run on A
gelqf_worksize_mut ==
    LET w0 == transpose(gelq2_worksize(nb, n))
        w1 == minMax(w0, larfb_worksize(nb, Sub(m, nb), n))
        w2 == IF m > nb
              THEN IF sameType THEN WorkInfoAdd(w1, WorkInfo(nb, nb)) ELSE w1
              ELSE w0
    IN  IF calls = <<>> THEN w2 ELSE WorkInfo(Add(w2.m, 1), w2.n)

\* gelqf_worksize<T>(A, tau, opts)
gelqf_worksize ==
    LET w0 == transpose(gelq2_worksize(nb, n))
        w1 == minMax(w0, larfb_worksize(nb, Sub(m, nb), n))
    IN  IF m > nb
        THEN IF sameType THEN WorkInfoAdd(w1, WorkInfo(nb, nb)) ELSE w1
        ELSE w0

\* gerqf_worksize<T>(A, tau, opts)
gerqf_worksize ==
    LET w0 == transpose(gerq2_worksize(nb, n))
        w1 == minMax(w0, larfb_worksize(nb, Sub(m, nb), n))
    IN  IF m > nb
        THEN IF sameType THEN WorkInfoAdd(w1, WorkInfo(nb, nb)) ELSE w1
        ELSE w0

\* ------------------------------------------------------------ views, kernels
\* a view is a rectangle <<r0, r1, c0, c1>> : rows [r0,r1), columns [c0,c1)
NoView == <<0, 0, 0, 0>>
NoRange == <<0, 0>>
InView(c, v) == v[1] <= c[1] /\ c[1] < v[2] /\ v[3] <= c[2] /\ c[2] < v[4]
InRange(i, r) == r[1] <= i /\ i < r[2]

\* slice(TT, range(0, ib), range(0, ib))
SliceT(tt, b) == <<tt[1], Add(tt[1], b), tt[3], Add(tt[3], b)>>

Call(op, V, t, C, T) == [op |-> op, V |-> V, tau |-> t, C |-> C, T |-> T]

\* the kernel writes the elements of view v of A
WriteA(a, v, c) == [x \in DOMAIN a |-> IF InView(x, v) THEN Append(a[x], c) ELSE a[x]]
\* the kernel writes the elements of range r of tau
WriteTau(t, r, c) == [i \in DOMAIN t |-> IF InRange(i, r) THEN Append(t[i], c) ELSE t[i]]

\* tlapack_check(cond): signals the violated precondition
tlapack_check(cond) == IF cond THEN "ok" ELSE "error"

\* the other routines are not running
HerkIdle ==
    /\ hArgs = <<>> /\ hpc = "idle" /\ hUplo = "" /\ hTrans = ""
    /\ hView = <<>> /\ hC = <<>> /\ hFault = FALSE
Ungl2Idle ==
    /\ uk = 0 /\ un = 0 /\ um = 0 /\ upc = "idle" /\ uj = 0
    /\ uQ = <<>> /\ uVisited = <<>>
DiagIdle ==
    /\ dm = 0 /\ dn = 0 /\ dLayout = "" /\ diagIdx = 0 /\ dpc = "idle"
    /\ dView = <<>> /\ dRead = <<>>
DriverIdle ==
    /\ routine = "" /\ m = 0 /\ n = 0 /\ optsNb = 0 /\ tauSize = 0
    /\ sameType = TRUE /\ callerWork = 0 /\ pc = "idle" /\ ret = -1
    /\ workinfo = WorkInfo(0, 0) /\ work = WorkInfo(0, 0) /\ work_ = "none"
    /\ TT = NoView /\ j = 0 /\ j2 = 0 /\ ib = 0
    /\ A = <<>> /\ tau = <<>> /\ calls = <<>> /\ queried = <<>>

\* ---------------------------------------------------------------------- Init
NbSet == (0..MaxNb) \cup {DefaultNb}

Init ==
    /\ routine \in {"gelqf", "gerqf"}
    /\ m \in 0..MaxM
    /\ n \in 0..MaxN
    /\ optsNb \in NbSet
    /\ tauSize \in 0..MaxTau
    /\ sameType \in BOOLEAN
    /\ callerWork \in {0, MaxWork}
    /\ work_ = "none"
    /\ queried = <<>>
    /\ HerkIdle /\ Ungl2Idle /\ DiagIdle
    /\ pc = "entry"
    /\ ret = -1
    /\ workinfo = WorkInfo(0, 0)
    /\ work = WorkInfo(0, 0)
    /\ TT = NoView
    /\ j = 0
    /\ j2 = 0
    /\ ib = 0
    /\ A = [c \in (0..(m-1)) \X (0..(n-1)) |-> <<>>]
    /\ tau = [i \in 0..(tauSize-1) |-> <<>>]
    /\ calls = <<>>

\* -------------------------------------------------------------------- gelqf
\* mutant: the length of tau is compared with the block size
gelqf_checkArgs_mut == tlapack_check(tauSize >= nb)

\* check arguments: tlapack_check((idx_t)size(tau) >= k)
gelqf_checkArgs == tlapack_check(tauSize >= k)

gelqf_check ==
    /\ routine = "gelqf" /\ pc = "entry"
    /\ pc' = IF gelqf_checkArgs = "ok" THEN "alloc" ELSE "error"
    /\ UNCHANGED <<inputs, work_, queried, ret, workinfo, work, TT, j, j2, ib, A, tau, calls>>

\* the block TT of the workspace that holds T
gelqf_TT(wi) ==
    IF m > nb THEN <<Sub(wi.m, nb), wi.m, Sub(wi.n, nb), wi.n>> ELSE NoView

\* allocate the workspace in the local vector work_, take TT, enter the loop
\* with j = 0
gelqf_alloc ==
    /\ routine = "gelqf" /\ pc = "alloc"
    /\ workinfo' = gelqf_worksize
    /\ work' = gelqf_worksize
    /\ work_' = (IF size(gelqf_worksize) > 0 THEN "live" ELSE "none")
    /\ TT' = gelqf_TT(gelqf_worksize)
    /\ j' = 0
    /\ pc' = "loop"
    /\ UNCHANGED <<inputs, queried, ret, j2, ib, A, tau, calls>>

\* mutant: the last panel is not shortened to the reflectors that remain
gelqf_ib_mut(jj) == nb

\* idx_t ib = std::min<idx_t>(nb, k - j)
gelqf_ib(jj) == min(nb, Sub(k, jj))

\* A11 = slice(A, range(j, j + ib), range(j, n)); tauw1 = slice(tau, range(j, j + ib))
gelqf_A11(jj, b) == <<jj, Add(jj, b), jj, n>>

\* mutant: tau is sliced from its start in every iteration
gelqf_tauw1_mut(jj, b) == <<0, b>>

gelqf_tauw1(jj, b) == <<jj, Add(jj, b)>>

\* mutant: the loop test admits j = k
gelqf_loopTest_mut(jj) == jj <= k

\* for (idx_t j = 0; j < k; j += nb)
gelqf_loopTest(jj) == jj < k

\* loop test j < k passes: gelq2 factors the current panel
gelqf_panel ==
    /\ routine = "gelqf" /\ pc = "loop" /\ gelqf_loopTest(j)
    /\ Len(calls) + 3 <= MaxCalls
    /\ LET b == gelqf_ib(j)
           c == Call("gelq2", gelqf_A11(j, b), gelqf_tauw1(j, b), NoView, NoView)
       IN  /\ ib' = b
           /\ A' = WriteA(A, c.V, c)
           /\ tau' = WriteTau(tau, c.tau, c)
           /\ calls' = Append(calls, c)
    /\ pc' = "update"
    /\ UNCHANGED <<inputs, work_, queried, ret, workinfo, work, TT, j, j2>>

\* if (j + ib < m)
gelqf_hasTrailing(jj, b) == Add(jj, b) < m

\* mutant: the trailing matrix starts at the panel's first row
gelqf_A12_mut(jj, b) == <<jj, m, jj, n>>

\* A12 = slice(A, range(j + ib, m), range(j, n))
gelqf_A12(jj, b) == <<Add(jj, b), m, jj, n>>

\* larft + larfb on the rows below the panel, then j += nb
gelqf_update ==
    /\ routine = "gelqf" /\ pc = "update"
    /\ IF gelqf_hasTrailing(j, ib)
       THEN LET TT1 == SliceT(TT, ib)
                V == gelqf_A11(j, ib)
                t == gelqf_tauw1(j, ib)
                c1 == Call("larft", V, t, NoView, TT1)
                c2 == Call("larfb", V, NoRange, gelqf_A12(j, ib), TT1)
            IN  /\ A' = WriteA(A, c2.C, c2)
                /\ calls' = calls \o <<c1, c2>>
       ELSE UNCHANGED <<A, calls>>
    /\ j' = Add(j, nb)
    /\ pc' = "loop"
    /\ UNCHANGED <<inputs, work_, queried, ret, workinfo, work, TT, j2, ib, tau>>

\* loop test j < k fails: return 0; work_ goes out of scope
gelqf_return ==
    /\ routine = "gelqf" /\ pc = "loop" /\ ~gelqf_loopTest(j)
    /\ ret' = 0
    /\ work_' = "released"
    /\ pc' = "done"
    /\ UNCHANGED <<inputs, queried, workinfo, work, TT, j, j2, ib, A, tau, calls>>

\* -------------------------------------------------------------------- gerqf
\* check arguments: tlapack_check((idx_t)size(tau) >= k)
gerqf_checkArgs == tlapack_check(tauSize >= k)

gerqf_check ==
    /\ routine = "gerqf" /\ pc = "entry"
    /\ pc' = IF gerqf_checkArgs = "ok" THEN "alloc" ELSE "error"
    /\ UNCHANGED <<inputs, work_, queried, ret, workinfo, work, TT, j, j2, ib, A, tau, calls>>

\* the block TT of the workspace that holds T
gerqf_TT(wi) ==
    IF m > nb THEN <<Sub(wi.m, nb), wi.m, Sub(wi.n, nb), wi.n>> ELSE NoView

\* allocate the workspace in the local vector work_, take TT, enter the loop
\* with j2 = 0
gerqf_alloc ==
    /\ routine = "gerqf" /\ pc = "alloc"
    /\ workinfo' = gerqf_worksize
    /\ work' = gerqf_worksize
    /\ work_' = (IF size(gerqf_worksize) > 0 THEN "live" ELSE "none")
    /\ TT' = gerqf_TT(gerqf_worksize)
    /\ j2' = 0
    /\ pc' = "loop"
    /\ UNCHANGED <<inputs, queried, ret, j, ib, A, tau, calls>>

\* const idx_t ib = min(nb, k - j2);  const idx_t j = m - j2 - ib;
gerqf_ib(jj2) == min(nb, Sub(k, jj2))

\* mutant: the LQ/tau offset mirrored mechanically, k in place of m
gerqf_j_mut(jj2, b) == Sub(Sub(k, jj2), b)

gerqf_j(jj2, b) == Sub(Sub(m, jj2), b)

\* A11 = slice(A, range(j, j + ib), range(0, n - j2))
gerqf_A11(jj, jj2, b) == <<jj, Add(jj, b), 0, Sub(n, jj2)>>
\* tauw1 = slice(tau, range(k - j2 - ib, k - j2))
gerqf_tauw1(jj2, b) == <<Sub(Sub(k, jj2), b), Sub(k, jj2)>>

\* for (idx_t j2 = 0; j2 < k; j2 += nb)
gerqf_loopTest(jj2) == jj2 < k

\* loop test j2 < k passes: gerq2 factors the current panel
gerqf_panel ==
    /\ routine = "gerqf" /\ pc = "loop" /\ gerqf_loopTest(j2)
    /\ Len(calls) + 3 <= MaxCalls
    /\ LET b == gerqf_ib(j2)
           jj == gerqf_j(j2, b)
           c == Call("gerq2", gerqf_A11(jj, j2, b), gerqf_tauw1(j2, b), NoView, NoView)
       IN  /\ ib' = b
           /\ j' = jj
           /\ A' = WriteA(A, c.V, c)
           /\ tau' = WriteTau(tau, c.tau, c)
           /\ calls' = Append(calls, c)
    /\ pc' = "update"
    /\ UNCHANGED <<inputs, work_, queried, ret, workinfo, work, TT, j2>>

\* mutant: the block update is made in every iteration
gerqf_hasTrailing_mut(jj) == jj >= 0

\* if (j > 0)
gerqf_hasTrailing(jj) == jj > 0

\* A12 = slice(A, range(0, j), range(0, n - j2))
gerqf_A12(jj, jj2) == <<0, jj, 0, Sub(n, jj2)>>

\* larft + larfb on the rows above the panel, then j2 += nb
gerqf_update ==
    /\ routine = "gerqf" /\ pc = "update"
    /\ IF gerqf_hasTrailing(j)
       THEN LET TT1 == SliceT(TT, ib)
                V == gerqf_A11(j, j2, ib)
                t == gerqf_tauw1(j2, ib)
                c1 == Call("larft", V, t, NoView, TT1)
                c2 == Call("larfb", V, NoRange, gerqf_A12(j, j2), TT1)
            IN  /\ A' = WriteA(A, c2.C, c2)
                /\ calls' = calls \o <<c1, c2>>
       ELSE UNCHANGED <<A, calls>>
    /\ j2' = Add(j2, nb)
    /\ pc' = "loop"
    /\ UNCHANGED <<inputs, work_, queried, ret, workinfo, work, TT, j, ib, tau>>

\* loop test j2 < k fails: return 0; work_ goes out of scope
gerqf_return ==
    /\ routine = "gerqf" /\ pc = "loop" /\ ~gerqf_loopTest(j2)
    /\ ret' = 0
    /\ work_' = "released"
    /\ pc' = "done"
    /\ UNCHANGED <<inputs, queried, workinfo, work, TT, j, j2, ib, A, tau, calls>>

\* ---------------------------------------------------------- workspace query
\* the caller asks gelqf_worksize before or after the factorization
gelqf_query ==
    /\ routine = "gelqf" /\ pc \in {"entry", "done"}
    /\ Len(queried) < MaxQueries
    /\ queried' = Append(queried, [at |-> pc, info |-> gelqf_worksize])
    /\ UNCHANGED <<inputs, pc, ret, workinfo, work, work_, TT, j, j2, ib, A, tau, calls>>

\* the caller asks gerqf_worksize before or after the factorization
gerqf_query ==
    /\ routine = "gerqf" /\ pc \in {"entry", "done"}
    /\ Len(queried) < MaxQueries
    /\ queried' = Append(queried, [at |-> pc, info |-> gerqf_worksize])
    /\ UNCHANGED <<inputs, pc, ret, workinfo, work, work_, TT, j, j2, ib, A, tau, calls>>

\* --------------------------------------------------------------------- Next
Next ==
    \/ gelqf_query
    \/ gerqf_query
    \/ gelqf_check
    \/ gelqf_alloc
    \/ gelqf_panel
    \/ gelqf_update
    \/ gelqf_return
    \/ gerqf_check
    \/ gerqf_alloc
    \/ gerqf_panel
    \/ gerqf_update
    \/ gerqf_return

Spec == Init /\ [][Next]_vars

\* the call is never suspended: every enabled step is eventually taken
FairSpec == Init /\ [][Next]_vars /\ WF_vars(Next)

\* ------------------------------------------------------- observed quantities
IsPanel(c) == c.op \in {"gelq2", "gerq2"}
PanelIdx == {i \in DOMAIN calls : IsPanel(calls[i])}
LarfbIdx == {i \in DOMAIN calls : calls[i].op = "larfb"}
TUseIdx == {i \in DOMAIN calls : calls[i].op \in {"larft", "larfb"}}
Iterations == Cardinality(PanelIdx)
\* number of panel calls whose row range / tau range holds index i
RowCover(i) == Cardinality({p \in PanelIdx : calls[p].V[1] <= i /\ i < calls[p].V[2]})
TauCover(i) == Cardinality({p \in PanelIdx : InRange(i, calls[p].tau)})
Idx == 0..(IdxMod - 1)
\* reflectors consumed so far: tau entries handed to the panel factorizer
Consumed == Cardinality({x \in PanelIdx \X Idx : InRange(x[2], calls[x[1]].tau)})
CeilDiv(a, b) == IF a = 0 THEN 0 ELSE (a + b - 1) \div b
\* the panel call of the iteration in progress (pc = "update")
LastPanel == calls[Len(calls)]
ValidCall == tauSize >= k /\ optsNb >= 1
Untouched ==
    /\ \A c \in DOMAIN A : A[c] = <<>>
    /\ \A i \in DOMAIN tau : tau[i] = <<>>

\* ------------------------------------------------------------------ claims
\* C1: for nb >= 1 gelqf terminates: j starts at 0, every iteration consumes
\* ib = min(nb', k - j) >= 1 reflectors, the loop makes ceil(k / nb')
\* iterations (none when k = 0), stops exactly when all k reflectors are
\* consumed, and the call returns 0.
C1_LoopState ==
    (routine = "gelqf" /\ ValidCall) =>
        /\ pc \in {"entry", "alloc"} => (j = 0 /\ Iterations = 0)
        /\ pc = "loop" =>
              /\ j = Iterations * min(optsNb, k)
              /\ Consumed = min(j, k)
        /\ pc = "update" =>
              /\ j = (Iterations - 1) * min(optsNb, k)
              /\ ib = min(min(optsNb, k), k - j)
              /\ ib >= 1
              /\ Consumed = j + ib
        /\ pc = "done" =>
              /\ ret = 0
              /\ Iterations = CeilDiv(k, min(optsNb, k))
              /\ Consumed = k
        /\ pc # "done" => ret # 0
C1_Terminates ==
    /\ []C1_LoopState
    /\ (routine = "gelqf" /\ ValidCall) ~> (pc = "done" /\ ret = 0)
C1_Witness ==
    /\ routine = "gelqf" /\ pc = "done" /\ Iterations >= 2
    /\ ib >= 1 /\ ib < nb

\* C2: in gerqf every panel is rows [j, j+ib) with j = m - j2 - ib, columns
\* [0, n - j2), tau [k - j2 - ib, k - j2); no subtraction wraps, every range
\* lies inside A or tau, and over the run the row ranges tile [m-k, m) from
\* the bottom up while the tau ranges tile [0, k).
C2_Stacked ==
    \A p \in PanelIdx :
        LET c == calls[p]
            prev == {q \in PanelIdx : q < p}
        IN  /\ c.V[1] <= c.V[2] /\ c.V[2] <= m
            /\ c.V[3] = 0 /\ c.V[4] <= n
            /\ c.tau[1] <= c.tau[2] /\ c.tau[2] <= k /\ c.tau[2] <= tauSize
            /\ c.V[2] - c.V[1] = c.tau[2] - c.tau[1]
            /\ m - c.V[2] = n - c.V[4]
            /\ m - c.V[2] = k - c.tau[2]
            /\ IF prev = {}
               THEN c.V[2] = m /\ c.tau[2] = k
               ELSE LET q == CHOOSE x \in prev : \A y \in prev : y <= x
                    IN  c.V[2] = calls[q].V[1] /\ c.tau[2] = calls[q].tau[1]
C2_RqPanels ==
    (routine = "gerqf" /\ optsNb >= 1) =>
        /\ C2_Stacked
        /\ pc = "update" =>
              /\ m - j2 - ib >= 0 /\ j = m - j2 - ib
              /\ n - j2 >= 0 /\ k - j2 - ib >= 0
              /\ LastPanel.V = <<j, j + ib, 0, n - j2>>
              /\ LastPanel.tau = <<k - j2 - ib, k - j2>>
        /\ pc = "done" =>
              /\ \A i \in Idx : RowCover(i) = IF m - k <= i /\ i < m THEN 1 ELSE 0
              /\ \A i \in Idx : TauCover(i) = IF i < k THEN 1 ELSE 0
C2_Witness ==
    /\ routine = "gerqf" /\ pc = "done" /\ m > n /\ Iterations >= 2 /\ ib < nb

\* C3: in gelqf the panel of progress j is rows [j, j+ib) x columns [j, n)
\* with tau [j, j+ib); the row ranges and the tau ranges tile [0, k), tau[i]
\* is written by the call that factors row i, and no row or tau index >= k
\* is ever a panel row.
C3_LqPanels ==
    routine = "gelqf" =>
        /\ \A p \in PanelIdx :
              LET c == calls[p]
              IN  /\ c.V[1] <= c.V[2] /\ c.V[2] <= k
                  /\ optsNb >= 1 => c.V[1] < c.V[2]
                  /\ c.V[3] = c.V[1] /\ c.V[4] = n
                  /\ c.tau = <<c.V[1], c.V[2]>>
        /\ pc = "update" =>
              /\ LastPanel.V = <<j, j + ib, j, n>>
              /\ LastPanel.tau = <<j, j + ib>>
        /\ \A i \in Idx : RowCover(i) <= 1 /\ TauCover(i) <= 1
        /\ \A i \in DOMAIN tau :
              /\ Len(tau[i]) = TauCover(i)
              /\ tau[i] # <<>> => (i < k /\ tau[i][1].V[1] <= i /\ i < tau[i][1].V[2])
        /\ pc = "done" =>
              /\ \A i \in Idx : RowCover(i) = IF i < k THEN 1 ELSE 0
              /\ \A i \in Idx : TauCover(i) = IF i < k THEN 1 ELSE 0
C3_Witness ==
    /\ routine = "gelqf" /\ pc = "done" /\ m > n /\ Iterations >= 2 /\ ib < nb

\* C4: the trailing matrix updated by larfb shrinks from one iteration to the
\* next and shares no row with a panel factored so far; gelqf updates rows
\* [j+ib, m) x columns [j, n) exactly when j+ib < m, gerqf updates rows
\* [0, j) x columns [0, n-j2) exactly when j > 0.
RowsDisjoint(v, w) == v[2] <= w[1] \/ w[2] <= v[1] \/ v[1] >= v[2] \/ w[1] >= w[2]
Within(v, w) == w[1] <= v[1] /\ v[2] <= w[2] /\ w[3] <= v[3] /\ v[4] <= w[4]
Area(v) == (v[2] - v[1]) * (v[4] - v[3])
\* the iteration of panel call p is complete
IterationDone(p) == p < Len(calls) \/ pc \in {"loop", "done"}
Updated(p) ==
    /\ p + 2 <= Len(calls)
    /\ calls[p + 1].op = "larft"
    /\ calls[p + 2].op = "larfb"
C4_Trailing ==
    /\ \A p \in PanelIdx : IterationDone(p) =>
          LET c == calls[p]
          IN  IF routine = "gelqf"
              THEN /\ Updated(p) <=> c.V[2] < m
                   /\ Updated(p) => calls[p + 2].C = <<c.V[2], m, c.V[1], n>>
              ELSE /\ Updated(p) <=> c.V[1] > 0
                   /\ Updated(p) => calls[p + 2].C = <<0, c.V[1], 0, c.V[4]>>
    /\ \A q \in LarfbIdx :
          /\ calls[q].C[1] < calls[q].C[2] /\ calls[q].C[2] <= m
          /\ calls[q].C[3] <= calls[q].C[4] /\ calls[q].C[4] <= n
          /\ \A p \in PanelIdx : p < q => RowsDisjoint(calls[q].C, calls[p].V)
          /\ \A q0 \in LarfbIdx : q0 < q =>
                /\ Within(calls[q].C, calls[q0].C)
                /\ optsNb >= 1 => Area(calls[q].C) < Area(calls[q0].C)
C4_Witness ==
    /\ pc = "done" /\ Cardinality(LarfbIdx) >= 2 /\ routine = "gerqf" /\ m < n

\* C5: a tau shorter than k is signalled at entry, before the workspace is
\* sized and before any kernel call, with A and tau untouched; once the
\* check passes with nb >= 1 no error state is reachable and the call
\* returns 0.
C5_EntryCheck ==
    /\ tauSize < k =>
          /\ pc \in {"entry", "error"}
          /\ workinfo = WorkInfo(0, 0) /\ work = WorkInfo(0, 0) /\ TT = NoView
          /\ calls = <<>> /\ Untouched
    /\ tauSize >= k => pc # "error"
    /\ (pc = "error") => (tauSize < k /\ ret # 0)
    /\ (ValidCall /\ pc = "done") => ret = 0
C5_Witness ==
    /\ pc = "error" /\ tauSize < k /\ tauSize >= 1 /\ optsNb >= 1

\* C6: the workspace allocated from gelqf_worksize / gerqf_worksize is large
\* enough in every iteration, for every combination of element types: the
\* panel factorizer's scratch fits, and the block applicator's scratch and
\* the block holding T both lie inside the workspace without sharing an
\* element.
WorkView == <<0, work.m, 0, work.n>>
Proper(v) == v[1] <= v[2] /\ v[3] <= v[4]
Overlap(v, w) ==
    /\ v[1] < v[2] /\ v[3] < v[4] /\ w[1] < w[2] /\ w[3] < w[4]
    /\ v[1] < w[2] /\ w[1] < v[2] /\ v[3] < w[4] /\ w[3] < v[4]
C6_WorkspaceSuffices ==
    optsNb >= 1 =>
        /\ \A p \in PanelIdx :
              LET rows == calls[p].V[2] - calls[p].V[1]
              IN  rows > 1 => (work.m >= 1 /\ work.n >= rows - 1)
        /\ \A q \in LarfbIdx :
              LET c == calls[q]
                  W == larfb_W(c.V[2] - c.V[1], c.C[2] - c.C[1])
              IN  /\ Proper(TT) /\ Within(TT, WorkView)
                  /\ Proper(c.T) /\ Within(c.T, WorkView)
                  /\ Within(W, WorkView)
                  /\ ~Overlap(W, c.T)

\* C7: wherever T is used it is a square view of side ib, 1 <= ib <= nb',
\* inside the nb'-by-nb' block TT at rows [workinfo.m - nb', workinfo.m) x
\* columns [workinfo.n - nb', workinfo.n); that block is non-empty and inside
\* the workspace (workinfo.m >= nb', workinfo.n >= nb'), and m > nb'.
C7_TBlock ==
    optsNb >= 1 =>
        \A q \in TUseIdx :
            LET c == calls[q]
                side == c.V[2] - c.V[1]
            IN  /\ 1 <= side /\ side <= min(optsNb, k)
                /\ c.T[2] - c.T[1] = side /\ c.T[4] - c.T[3] = side
                /\ m > min(optsNb, k)
                /\ workinfo.m >= min(optsNb, k) /\ workinfo.n >= min(optsNb, k)
                /\ TT = <<workinfo.m - min(optsNb, k), workinfo.m,
                          workinfo.n - min(optsNb, k), workinfo.n>>
                /\ Within(TT, WorkView)
                /\ Within(c.T, TT)

\* C8: when m = 0 or n = 0 both drivers make no loop iteration and no kernel
\* call, leave A and tau as they were and return 0, for every block size,
\* the default 32 included.
C8_QuickReturn ==
    (m = 0 \/ n = 0) =>
        /\ pc \in {"entry", "alloc", "loop", "done"}
        /\ calls = <<>> /\ Untouched
        /\ j = 0 /\ j2 = 0 /\ ib = 0
        /\ pc = "done" => ret = 0
C8_Witness ==
    /\ pc = "done" /\ ret = 0 /\ m = 0 /\ n >= 1
    /\ optsNb = DefaultNb /\ tauSize >= 1

\* the unblocked panel factorizer called once on all of A with all of tau
UnblockedCall ==
    Call(IF routine = "gelqf" THEN "gelq2" ELSE "gerq2",
         <<0, m, 0, n>>, <<0, k>>, NoView, NoView)
UnblockedA == [c \in DOMAIN A |-> <<UnblockedCall>>]
UnblockedTau == [i \in DOMAIN tau |-> IF i < k THEN <<UnblockedCall>> ELSE <<>>]

\* C9 as stated: whenever nb >= k the driver makes one panel factorization
\* and leaves in A and tau what the unblocked call leaves, for m <= n and
\* for m > n alike.
C9_SinglePanelAnyShape ==
    (optsNb >= k /\ pc = "done") =>
        /\ Iterations = (IF k > 0 THEN 1 ELSE 0)
        /\ A = UnblockedA
        /\ tau = UnblockedTau

\* C9 amended: for m <= n and nb >= k = m the driver makes exactly the
\* unblocked call on all of A and all of tau and no other kernel call, so A
\* and tau end as the unblocked call leaves them.
C9_SinglePanelWide ==
    (optsNb >= k /\ m <= n /\ pc = "done") =>
        /\ calls = (IF k > 0 THEN <<UnblockedCall>> ELSE <<>>)
        /\ A = UnblockedA
        /\ tau = UnblockedTau
C9_Witness ==
    /\ pc = "done" /\ routine = "gerqf" /\ optsNb >= k /\ m >= 2 /\ m < n
    /\ calls = <<UnblockedCall>>

\* C10: a block size of 0 on a matrix with k > 0 is signalled at entry,
\* before any mutation; the main loop is never entered.
C10_InvalidOptions ==
    (optsNb = 0 /\ k > 0) =>
        /\ pc \in {"entry", "error"}
        /\ calls = <<>> /\ Untouched

\* C11: when the caller holds scratch at least as large as the query result
\* the drivers use it and allocate none of their own; they allocate only
\* when no sufficient scratch is supplied, and what they allocated is
\* released on every exit path.
C11_CallerScratchUsed ==
    /\ (callerWork > 0 /\ callerWork >= size(workinfo)
          /\ pc \in {"loop", "update", "done"}) => work_ = "none"
    /\ pc \in {"done", "error"} => work_ # "live"

\* C12: the size queries are pure functions of (m, n, block size): every
\* query of one call returns the same WorkInfo, before the factorization and
\* after it has rewritten A and tau, the same one the driver allocates from,
\* and a query changes neither A nor tau nor the workspace.
C12_QueryState ==
    \A i \in DOMAIN queried :
        /\ queried[i].info = queried[1].info
        /\ pc \in {"loop", "update", "done"} => queried[i].info = workinfo
C12_QueryFrame ==
    (queried' # queried) => UNCHANGED <<A, tau, calls, workinfo, work, work_, TT, pc, ret>>
HUplos == {"Lower", "Upper", "General"}
HOps == {"NoTrans", "Trans", "ConjTrans"}

\* blas_error_if(cond): signals an argument error when cond holds
blas_error_if(cond) == cond

\* colmajor_matrix: address of element (i, j)
ColAddr(i, jj, ld) == i + jj * ld

\* the caller's element (r, c) of C in the storage handed to the pointer
\* interface
UserAddr(r, c) ==
    IF hArgs.layout = "ColMajor" THEN r + c * hArgs.ldc ELSE c + r * hArgs.ldc

HInitPointer ==
    /\ hArgs \in [iface : {"pointer"}, layout : {"ColMajor", "RowMajor"},
                  uplo : HUplos, trans : HOps, complex : BOOLEAN,
                  n : 0..HMaxN, k : 0..HMaxK, lda : 1..HMaxLd, ldc : 1..HMaxLd,
                  alpha : {"zero", "nonzero"}, beta : {"zero", "one", "other"},
                  arows : {0}, acols : {0}, crows : {0}, ccols : {0}]
    /\ hpc = "p_entry"
    /\ hUplo = hArgs.uplo /\ hTrans = hArgs.trans
    /\ hView = <<>>
    /\ hC = [a \in 0..(hArgs.ldc * hArgs.n - 1) |-> "c"]

HInitView ==
    /\ hArgs \in [iface : {"view"}, layout : {"ColMajor"},
                  uplo : HUplos, trans : HOps, complex : BOOLEAN,
                  n : {0}, k : {0}, lda : {1}, ldc : {1},
                  alpha : {"nonzero"}, beta : {"other"},
                  arows : 0..HMaxN, acols : 0..HMaxN,
                  crows : 0..HMaxN, ccols : 0..HMaxN]
    /\ hpc = "v_entry"
    /\ hUplo = hArgs.uplo /\ hTrans = hArgs.trans
    /\ hView = [arows |-> hArgs.arows, acols |-> hArgs.acols,
                crows |-> hArgs.crows, ccols |-> hArgs.ccols, ld |-> hArgs.crows]
    /\ hC = [a \in 0..(hArgs.crows * hArgs.ccols - 1) |-> "c"]

InitHerk ==
    /\ DriverIdle /\ Ungl2Idle /\ DiagIdle
    /\ hFault = FALSE
    /\ (HInitPointer \/ HInitView)

\* --------------------------------------------------------- pointer interface
\* check arguments
herk_ptr_argError ==
    \/ blas_error_if(hArgs.layout # "ColMajor" /\ hArgs.layout # "RowMajor")
    \/ blas_error_if(hArgs.uplo # "Lower" /\ hArgs.uplo # "Upper" /\ hArgs.uplo # "General")
    \/ blas_error_if(hArgs.trans # "NoTrans" /\ hArgs.trans # "Trans" /\ hArgs.trans # "ConjTrans")
    \/ blas_error_if(hArgs.complex /\ hArgs.trans = "Trans")
    \/ blas_error_if(hArgs.n < 0)
    \/ blas_error_if(hArgs.k < 0)
    \/ blas_error_if(hArgs.lda <
          (IF hArgs.layout = "RowMajor"
           THEN (IF hArgs.trans = "NoTrans" THEN hArgs.k ELSE hArgs.n)
           ELSE (IF hArgs.trans = "NoTrans" THEN hArgs.n ELSE hArgs.k)))
    \/ blas_error_if(hArgs.ldc < hArgs.n)

herk_ptr_check ==
    /\ hpc = "p_entry"
    /\ hpc' = IF herk_ptr_argError THEN "error" ELSE "p_checked"
    /\ UNCHANGED <<driverVars, ungl2Vars, diagVars, hArgs, hUplo, hTrans, hView, hC, hFault>>

\* quick return: if (n == 0) return
herk_ptr_quick ==
    /\ hpc = "p_checked" /\ hArgs.n = 0
    /\ hpc' = "done"
    /\ UNCHANGED <<driverVars, ungl2Vars, diagVars, hArgs, hUplo, hTrans, hView, hC, hFault>>

\* if (trans == Op::ConjTrans) trans = Op::Trans
herk_ptr_trans0(t) == IF t = "ConjTrans" THEN "Trans" ELSE t

\* adapt if row major: uplo
herk_ptr_uplo(layout, u) ==
    IF layout = "RowMajor"
    THEN (IF u = "Lower" THEN "Upper" ELSE IF u = "Upper" THEN "Lower" ELSE u)
    ELSE u

\* adapt if row major: trans
herk_ptr_trans(layout, t) ==
    IF layout = "RowMajor"
    THEN (IF herk_ptr_trans0(t) = "NoTrans" THEN "ConjTrans" ELSE "NoTrans")
    ELSE herk_ptr_trans0(t)

\* the matrix views A (n-by-k or k-by-n) and C (n-by-n, leading dimension ldc)
herk_ptr_views(t) ==
    [arows |-> IF t = "NoTrans" THEN hArgs.n ELSE hArgs.k,
     acols |-> IF t = "NoTrans" THEN hArgs.k ELSE hArgs.n,
     crows |-> hArgs.n, ccols |-> hArgs.n, ld |-> hArgs.ldc]

herk_ptr_adapt ==
    /\ hpc = "p_checked" /\ hArgs.n # 0
    /\ hUplo' = herk_ptr_uplo(hArgs.layout, hUplo)
    /\ hTrans' = herk_ptr_trans(hArgs.layout, hTrans)
    /\ hView' = herk_ptr_views(herk_ptr_trans(hArgs.layout, hTrans))
    /\ hpc' = "p_adapted"
    /\ UNCHANGED <<driverVars, ungl2Vars, diagVars, hArgs, hC, hFault>>

\* alpha == zero: the elements (i, j) of the view that are written
herk_ptr_zeroCells(u, nn) ==
    IF u # "Upper"
    THEN {x \in (0..(nn-1)) \X (0..(nn-1)) : x[1] <= x[2]}
    ELSE IF u # "Lower"
    THEN {x \in (0..(nn-1)) \X (0..(nn-1)) : x[1] >= x[2]}
    ELSE (0..(nn-1)) \X (0..(nn-1))

\* alpha == zero: C = 0 or C = beta * C on those elements, then return
herk_ptr_alphaZero ==
    /\ hpc = "p_adapted" /\ hArgs.alpha = "zero"
    /\ LET W == {ColAddr(x[1], x[2], hView.ld) : x \in herk_ptr_zeroCells(hUplo, hArgs.n)}
       IN  hC' = [a \in DOMAIN hC |->
                    IF a \in W
                    THEN (IF hArgs.beta = "zero" THEN "0"
                          ELSE IF hArgs.beta # "one" THEN "bc" ELSE hC[a])
                    ELSE hC[a]]
    /\ hpc' = "done"
    /\ UNCHANGED <<driverVars, ungl2Vars, diagVars, hArgs, hUplo, hTrans, hView, hFault>>

\* herk( uplo, trans, alpha, A, beta, C )
herk_ptr_forward ==
    /\ hpc = "p_adapted" /\ hArgs.alpha # "zero"
    /\ hpc' = "v_entry"
    /\ UNCHANGED <<driverVars, ungl2Vars, diagVars, hArgs, hUplo, hTrans, hView, hC, hFault>>

\* ------------------------------------------------------------ view interface
\* n = (trans == Op::NoTrans) ? nrows(A) : ncols(A)
herk_view_n == IF hTrans = "NoTrans" THEN hView.arows ELSE hView.acols

\* check arguments: uplo, trans
herk_view_opError ==
    \/ blas_error_if(hUplo # "Lower" /\ hUplo # "Upper" /\ hUplo # "General")
    \/ blas_error_if(hTrans # "NoTrans" /\ hTrans # "ConjTrans")

\* check arguments: the shape of C
herk_view_shapeError ==
    blas_error_if(hView.crows = hView.ccols /\ hView.crows = herk_view_n)

herk_view_check ==
    /\ hpc = "v_entry"
    /\ hpc' = IF herk_view_opError \/ herk_view_shapeError THEN "error" ELSE "v_checked"
    /\ UNCHANGED <<driverVars, ungl2Vars, diagVars, hArgs, hUplo, hTrans, hView, hC, hFault>>

\* the value an updated element gets: alpha*A*A^H + beta*C for NoTrans,
\* alpha*A^H*A + beta*C for ConjTrans
herk_view_product(t) == IF t = "NoTrans" THEN "aAAh+bc" ELSE "aAhA+bc"

\* the elements of C the update loops assign, with the value they get
\* ("keep" for an element no loop assigns)
herk_view_value(i, jj) ==
    IF hUplo # "Lower"
    THEN (IF i <= jj THEN herk_view_product(hTrans)
          ELSE IF hUplo = "General" THEN "conj" ELSE "keep")
    ELSE (IF i >= jj THEN herk_view_product(hTrans) ELSE "keep")

herk_view_update ==
    /\ hpc = "v_checked"
    /\ LET nn == herk_view_n
           cells == (0..(nn-1)) \X (0..(nn-1))
           written == {x \in cells : herk_view_value(x[1], x[2]) # "keep"}
           inC(x) == x[1] < hView.crows /\ x[2] < hView.ccols
           hit(a) == {x \in written : inC(x) /\ ColAddr(x[1], x[2], hView.ld) = a}
       IN  /\ hC' = [a \in DOMAIN hC |->
                       IF hit(a) = {} THEN hC[a]
                       ELSE LET x == CHOOSE y \in hit(a) : TRUE
                            IN  herk_view_value(x[1], x[2])]
           /\ hFault' = (hFault \/ \E x \in written : ~inC(x))
    /\ hpc' = "done"
    /\ UNCHANGED <<driverVars, ungl2Vars, diagVars, hArgs, hUplo, hTrans, hView>>

NextHerk ==
    \/ herk_ptr_check
    \/ herk_ptr_quick
    \/ herk_ptr_adapt
    \/ herk_ptr_alphaZero
    \/ herk_ptr_forward
    \/ herk_view_check
    \/ herk_view_update

SpecHerk == InitHerk /\ [][NextHerk]_vars

HCells == (0..(hArgs.n - 1)) \X (0..(hArgs.n - 1))
BetaC == IF hArgs.beta = "zero" THEN "0" ELSE IF hArgs.beta = "one" THEN "c" ELSE "bc"
InNamedTriangle(x) ==
    \/ hArgs.uplo = "Lower" /\ x[1] >= x[2]
    \/ hArgs.uplo = "Upper" /\ x[1] <= x[2]
    \/ hArgs.uplo = "General"

\* C13: the pointer-interface herk touches only the triangle of C named by
\* uplo: for Lower nothing strictly above the diagonal changes, for Upper
\* nothing strictly below it, in both layouts and on the alpha == 0 path,
\* where the named triangle becomes beta * C (zero when beta == 0).
C13_TriangleOnly ==
    (hArgs.iface = "pointer" /\ hpc = "done" /\ hArgs.n > 0) =>
        /\ hArgs.uplo = "Lower" =>
              \A x \in HCells : x[1] < x[2] => hC[UserAddr(x[1], x[2])] = "c"
        /\ hArgs.uplo = "Upper" =>
              \A x \in HCells : x[1] > x[2] => hC[UserAddr(x[1], x[2])] = "c"
        /\ hArgs.alpha = "zero" =>
              \A x \in HCells : InNamedTriangle(x) => hC[UserAddr(x[1], x[2])] = BetaC

\* C14: for every legal layout and trans with valid n, k, lda, ldc and
\* alpha # 0 the pointer-interface herk signals no argument error, forwards
\* a trans the view interface accepts, and makes the documented update:
\* alpha*A*A^H + beta*C for NoTrans, alpha*A^H*A + beta*C otherwise.
HLegalCall ==
    /\ hArgs.iface = "pointer" /\ hArgs.alpha = "nonzero" /\ hArgs.n > 0
    /\ ~(hArgs.complex /\ hArgs.trans = "Trans")
    /\ hArgs.ldc >= hArgs.n
    /\ hArgs.lda >= (IF (hArgs.layout = "RowMajor") = (hArgs.trans = "NoTrans")
                     THEN hArgs.k ELSE hArgs.n)
\* the product the column-major view has to form for the caller's trans
HExpectedOp ==
    IF (hArgs.layout = "ColMajor") = (hArgs.trans = "NoTrans")
    THEN "NoTrans" ELSE "ConjTrans"
C14_LegalCallsUpdate ==
    HLegalCall =>
        /\ hpc # "error"
        /\ hpc = "v_entry" => hTrans \in {"NoTrans", "ConjTrans"}
        /\ hpc = "done" =>
              \A x \in HCells :
                  (hArgs.uplo # "General" /\ InNamedTriangle(x)) =>
                      hC[UserAddr(x[1], x[2])] = herk_view_product(HExpectedOp)

\* C15: the view-interface herk signals an argument error exactly when C is
\* not n-by-n, n being nrows(A) for NoTrans and ncols(A) for ConjTrans, and
\* goes on to the update when C is n-by-n.
C15_SquareCheck ==
    (hArgs.iface = "view" /\ hArgs.trans \in {"NoTrans", "ConjTrans"}
        /\ hpc \in {"error", "v_checked", "done"}) =>
        LET nn == IF hArgs.trans = "NoTrans" THEN hArgs.arows ELSE hArgs.acols
        IN  (hpc = "error") <=> ~(hArgs.crows = hArgs.ccols /\ hArgs.crows = nn)

\* ==================================================================== ungl2
\* Generation of Q from an LQ factorization (unblocked).  Q is k-by-n with
\* k <= n, tauw has m entries.  Entries of Q are symbolic: "v" the reflector
\* data on input, "0" and "1" the constants the routine stores, "H" an entry
\* rewritten by larf, "s" one scaled by scal, "1-tau" the diagonal entry.
\* uVisited lists the loop indices whose body ran; the body of index j reads
\* tauw[j] and reads and writes row j of Q.
InitUngl2 ==
    /\ DriverIdle /\ HerkIdle /\ DiagIdle
    /\ uk \in 0..UMaxK /\ un \in uk..UMaxN /\ um \in 0..UMaxTau
    /\ upc = "entry" /\ uj = 0
    /\ uQ = [x \in (0..(uk - 1)) \X (0..(un - 1)) |-> "v"]
    /\ uVisited = <<>>

\* t = min(k, m): desired number of Householder reflectors to use
ungl2_t == min(uk, um)

\* check arguments: tlapack_check_false((idx_t)size(tauw) < min(m, n))
ungl2_check == tlapack_check(~(um < min(um, un)))

\* if (j < k && j > t - 1) Q(j, j) = 1
ungl2_unitDiag(jj) == jj < uk /\ jj > Sub(ungl2_t, 1)

\* Initialise columns t:k-1 to rows of the unit matrix
ungl2_initQ ==
    IF uk > um
    THEN [x \in DOMAIN uQ |->
            IF x[1] = x[2] /\ ungl2_unitDiag(x[2]) THEN "1"
            ELSE IF x[1] >= ungl2_t THEN "0"
            ELSE uQ[x]]
    ELSE uQ

\* the loop sentinel idx_t(-1)
ungl2_sentinel == IdxMod - 1

\* the loop starts at j = t - 1
ungl2_start_mut == ungl2_t
ungl2_start == Sub(ungl2_t, 1)

ungl2_init ==
    /\ upc = "entry"
    /\ IF ungl2_check = "ok"
       THEN upc' = "loop" /\ uQ' = ungl2_initQ /\ uj' = ungl2_start
       ELSE upc' = "error" /\ UNCHANGED <<uQ, uj>>
    /\ UNCHANGED <<driverVars, herkVars, diagVars, uk, un, um, uVisited>>

\* larf is applied to Q11 = Q(j+1:k, j:n)
ungl2_applies(jj) ==
    \/ uk > um /\ Add(jj, 1) = ungl2_t
    \/ Add(jj, 1) < ungl2_t

\* one iteration of the loop over the reflectors
ungl2_body(jj) ==
    [x \in DOMAIN uQ |->
        IF x[1] = jj
        THEN (IF x[2] < jj THEN "0"
              ELSE IF x[2] = jj THEN "1-tau"
              ELSE IF Add(jj, 1) < un THEN "s" ELSE uQ[x])
        ELSE IF Add(jj, 1) < un /\ ungl2_applies(jj) /\ x[1] > jj /\ x[2] >= jj
        THEN "H"
        ELSE uQ[x]]

ungl2_iter ==
    /\ upc = "loop" /\ uj # ungl2_sentinel
    /\ Len(uVisited) <= UMaxK
    /\ uVisited' = Append(uVisited, uj)
    /\ uQ' = ungl2_body(uj)
    /\ uj' = Sub(uj, 1)
    /\ UNCHANGED <<driverVars, herkVars, diagVars, uk, un, um, upc>>

ungl2_return ==
    /\ upc = "loop" /\ uj = ungl2_sentinel
    /\ upc' = "done"
    /\ UNCHANGED <<driverVars, herkVars, diagVars, uk, un, um, uj, uQ, uVisited>>

NextUngl2 ==
    \/ ungl2_init
    \/ ungl2_iter
    \/ ungl2_return

SpecUngl2 == InitUngl2 /\ [][NextUngl2]_vars
FairSpecUngl2 == SpecUngl2 /\ WF_vars(NextUngl2)

\* C16: the reverse loop of ungl2 runs its body exactly t = min(k, size(tauw))
\* times, for j = t-1, t-2, ..., 0 in that order, and then ends; for t = 0 it
\* runs no iteration; no iteration has an index j >= t, so none reads tauw[j]
\* or takes row j of Q as its reflector beyond the t available ones.
C16_LoopState ==
    /\ \A i \in DOMAIN uVisited : uVisited[i] = ungl2_t - i /\ uVisited[i] < ungl2_t
    /\ Len(uVisited) <= ungl2_t
    /\ upc = "done" => Len(uVisited) = ungl2_t
C16_ReverseLoop == []C16_LoopState /\ <>(upc = "done")
C16_Witness ==
    /\ upc = "done" /\ ungl2_t = 3 /\ uVisited = <<2, 1, 0>> /\ uk > um
C16_WitnessEmpty ==
    /\ upc = "done" /\ ungl2_t = 0 /\ uk > 0 /\ uVisited = <<>>

\* C17: when k > size(tauw), once the initialisation step has run and before
\* the first reflector is applied, rows t..k-1 of Q are rows of the unit
\* matrix: Q(i,j) = 1 if i = j and 0 otherwise, for every t >= 0; for t = 0
\* this is also the final Q.
C17_UnitRows ==
    (uk > um /\ upc \in {"loop", "done"} /\ uVisited = <<>>) =>
        \A x \in DOMAIN uQ :
            x[1] >= ungl2_t => uQ[x] = (IF x[1] = x[2] THEN "1" ELSE "0")

\* ===================================================================== diag
\* diag(A, diagIdx) of the mdspan plugin.  A is dm-by-dn, stored without
\* padding in layout "left" (column major) or "right" (row major); its
\* element (i, j) is at offset i * stride(0) + j * stride(1).  dView is the
\* returned one-dimensional strided view, dRead the elements read through it,
\* in order, each with the offset it addresses.
InitDiag ==
    /\ DriverIdle /\ HerkIdle /\ Ungl2Idle
    /\ dm \in 0..DMaxM /\ dn \in 0..DMaxN
    /\ dLayout \in {"left", "right"}
    /\ diagIdx \in (0 - DMaxM)..DMaxN
    /\ 0 - dm < diagIdx /\ diagIdx < dn
    /\ dpc = "entry" /\ dView = <<>> /\ dRead = <<>>

abs(x) == IF x < 0 THEN 0 - x ELSE x

\* A.stride(0), A.stride(1)
diag_stride(r) ==
    IF dLayout = "left" THEN (IF r = 0 THEN 1 ELSE dm)
                        ELSE (IF r = 0 THEN dn ELSE 1)

\* A.mapping()(i, j)
diag_mapping(i, jj) == i * diag_stride(0) + jj * diag_stride(1)

\* the offset of the first element of the diagonal
diag_ptr ==
    IF diagIdx >= 0 THEN diag_mapping(0, diagIdx) ELSE diag_mapping(0 - diagIdx, 0)

\* the extent: min(A.extent(0), A.extent(1)) - abs(diagIdx), in size_type
diag_extent == Sub(min(dm, dn), abs(diagIdx))

diag ==
    /\ dpc = "entry"
    /\ dView' = [ptr |-> diag_ptr, extent |-> diag_extent,
                 stride |-> diag_stride(0) + diag_stride(1)]
    /\ dpc' = "view"
    /\ UNCHANGED <<driverVars, herkVars, ungl2Vars, dm, dn, dLayout, diagIdx, dRead>>

\* the element of A stored at an offset, "outside" beyond the storage of A
diag_cell(a) ==
    IF a >= dm * dn THEN "outside"
    ELSE IF dLayout = "left" THEN <<a % dm, a \div dm>>
    ELSE <<a \div dn, a % dn>>

\* the caller reads the next element of the view: v[i] is at ptr + i * stride
diag_read ==
    /\ dpc = "view"
    /\ Len(dRead) < dView.extent /\ Len(dRead) <= min(DMaxM, DMaxN)
    /\ LET i == Len(dRead)
       IN  dRead' = Append(dRead, [i |-> i, at |-> dView.ptr + i * dView.stride])
    /\ UNCHANGED <<driverVars, herkVars, ungl2Vars, dm, dn, dLayout, diagIdx, dpc, dView>>

NextDiag ==
    \/ diag
    \/ diag_read

SpecDiag == InitDiag /\ [][NextDiag]_vars

\* the entries of the diagIdx-th diagonal that exist in A
DiagLength == IF diagIdx >= 0 THEN min(dm, dn - diagIdx) ELSE min(dm + diagIdx, dn)
DiagEntry(i) == IF diagIdx >= 0 THEN <<i, i + diagIdx>> ELSE <<i - diagIdx, i>>

\* C18: for every m, n >= 0 and -m < d < n the view diag(A, d) returns has
\* as many elements as the d-th diagonal has entries in A (min(m, n-d) for
\* d >= 0, min(m+d, n) for d < 0), its i-th element is A(i, i+d) for d >= 0
\* and A(i-d, i) for d < 0, and it addresses nothing outside A.
C18_Diagonal ==
    dpc = "view" =>
        /\ dView.extent = DiagLength
        /\ \A r \in DOMAIN dRead :
              /\ diag_cell(dRead[r].at) # "outside"
              /\ diag_cell(dRead[r].at) = DiagEntry(dRead[r].i)

====
